---- MODULE Spec2Model ----
(***************************************************************************)
(* Montscan: the ingestion-and-retry coordinator (ProcessingManager) that  *)
(* the FTP handler feeds.  One caller thread (the FTP server's I/O loop)   *)
(* runs submit_file; the ThreadPoolExecutor's workers run                  *)
(* _process_with_retries.  The SQLite table `processed` (the ledger) and   *)
(* the upload directory are the only state that survives a restart.        *)
(***************************************************************************)
EXTENDS Integers, Sequences, FiniteSets, TLC

(* ------------------------------ bounds --------------------------------- *)

\* PROCESSING_MAX_RETRIES is drawn from -1 .. MaxRetriesCfg
MaxRetriesCfg == 2
\* PROCESSING_MAX_WORKERS is drawn from 1 .. MaxWorkersCfg
MaxWorkersCfg == 2
\* number of process restarts
MaxRestarts == 1

(* --------------------------- paths and bytes --------------------------- *)

\* A path is a sequence of characters; a file's content a sequence of bytes.
PathA == <<"u", "/", "a", ".", "p", "d", "f">>
PathB == <<"u", "/", "b", ".", "P", "D", "F">>
PathC == <<"u", "/", "c", ".", "t", "x", "t">>
Paths == {PathA, PathB, PathC}

Absent == <<>>
ContentX == <<37, 80>>
ContentY == <<37, 81>>
Contents == {ContentX, ContentY}

DotPdf == <<".", "p", "d", "f">>

\* str.lower() on the characters the paths use
LowerChar(c) ==
    CASE c = "P" -> "p"
      [] c = "D" -> "d"
      [] c = "F" -> "f"
      [] OTHER -> c

Lower(s) == [i \in 1..Len(s) |-> LowerChar(s[i])]

EndsWith(s, suffix) ==
    /\ Len(s) >= Len(suffix)
    /\ SubSeq(s, Len(s) - Len(suffix) + 1, Len(s)) = suffix

\* file_path.lower().endswith(".pdf")
IsPdfAlways(file_path) == TRUE
IsPdf(file_path) == EndsWith(Lower(file_path), DotPdf)

\* os.path.basename: what follows the last "/"
LastSlash(s) ==
    LET idx == {i \in 1..Len(s) : s[i] = "/"}
    IN  IF idx = {} THEN 0 ELSE CHOOSE i \in idx : \A k \in idx : k <= i

Basename(file_path) == SubSeq(file_path, LastSlash(file_path) + 1, Len(file_path))

\* _sha256: a digest folded over the bytes in order; equal bytes give equal
\* digests and the modelled contents do not collide.
RECURSIVE Digest(_, _)
Digest(h, bytes) ==
    IF bytes = <<>> THEN h
    ELSE Digest((h * 31 + Head(bytes)) % 65536, Tail(bytes))

Sha256(bytes) == Digest(7, bytes)

(* ------------------------------- state --------------------------------- *)

VARIABLES
    max_retries,   \* ProcessingManager.max_retries
    max_workers,   \* ThreadPoolExecutor(max_workers=...)
    files,         \* the upload directory: path -> bytes, or Absent
    ledger,        \* rows of the SQLite table `processed`
    clock,         \* datetime.now(): ticks at every ledger write
    sub,           \* the submit_file call made for each path
    job,           \* the job that call scheduled, if any
    queue,         \* the executor's work queue (FIFO of jobs, named by path)
    restarts       \* number of process restarts so far

vars == <<max_retries, max_workers, files, ledger, clock, sub, job, queue, restarts>>

NoSub ==
    [pc |-> "unused", file_hash |-> 0, result |-> "none",
     lookedUp |-> FALSE, seen |-> FALSE, lookupTime |-> 0,
     removeResult |-> "none", epoch |-> 0]

NoJob ==
    [pc |-> "none", attempt |-> 0, backoff |-> 0, log |-> <<>>, slept |-> <<>>,
     markTime |-> 0, removeResult |-> "none", outcome |-> "none"]

\* the caller thread (the FTP server's I/O loop) is inside no submit_file call
CallerIdle == \A p \in Paths : sub[p].pc \notin {"lookup", "duplicate", "enqueue"}

\* jobs a worker thread is executing
Running == {p \in Paths : job[p].pc \in {"call", "mark", "remove", "sleep"}}

HasRecord(rows, file_hash) == \E r \in rows : r.file_hash = file_hash

(* ------------------------------- ledger -------------------------------- *)

\* _init_db: CREATE TABLE IF NOT EXISTS keeps the rows of an existing table
InitDbDropsRows(rows) == {}
InitDb(rows) == rows

\* _is_already_processed: SELECT 1 FROM processed WHERE file_hash = ?
IsAlreadyProcessed(rows, file_hash) == \E r \in rows : r.file_hash = file_hash

\* _mark_processed: INSERT OR REPLACE on the primary key file_hash
InsertOnly(rows, file_hash, filename, now) ==
    rows \cup {[file_hash |-> file_hash, filename |-> filename, processed_at |-> now]}
InsertOrReplace(rows, file_hash, filename, now) ==
    {r \in rows : r.file_hash # file_hash}
        \cup {[file_hash |-> file_hash, filename |-> filename, processed_at |-> now]}

(* -------------------------------- Init --------------------------------- *)

\* the upload directory at start: the first .pdf upload is there or is
\* missing, the second holds the same bytes or others, and the file that is
\* no .pdf is there
InitialDirs ==
    {d \in [Paths -> Contents \cup {Absent}] :
        /\ d[PathA] \in {ContentX, Absent}
        /\ d[PathB] \in Contents
        /\ d[PathC] = ContentX}

Init ==
    /\ max_retries \in (0 - 1)..MaxRetriesCfg
    /\ max_workers \in 1..MaxWorkersCfg
    /\ files \in InitialDirs
    /\ ledger = InitDb({})
    /\ clock = 0
    /\ sub = [p \in Paths |-> NoSub]
    /\ job = [p \in Paths |-> NoJob]
    /\ queue = <<>>
    /\ restarts = 0

(* ---------------------------- submit_file ------------------------------ *)

\* submit_file up to and including _sha256 (the caller thread); the listener
\* calls it once for each received upload.  A path that is no .pdf, or names
\* no file, returns at once.  _sha256 may raise an I/O error, which leaves
\* submit_file as an exception.
SubmitFile(file_path) ==
    /\ sub[file_path].pc = "unused"
    /\ CallerIdle
    /\ \E io_ok \in BOOLEAN :
         sub' = [sub EXCEPT ![file_path] =
           IF ~IsPdf(file_path)
             THEN [@ EXCEPT !.pc = "returned", !.result = "not_pdf"]
           ELSE IF files[file_path] = Absent
             THEN [@ EXCEPT !.pc = "returned", !.result = "missing"]
           ELSE IF ~io_ok
             THEN [@ EXCEPT !.pc = "raised", !.result = "fingerprint_error"]
           ELSE [@ EXCEPT !.pc = "lookup",
                          !.file_hash = Sha256(files[file_path]),
                          !.epoch = restarts]]
    /\ UNCHANGED <<max_retries, max_workers, files, ledger, clock, job, queue, restarts>>

\* the branch submit_file takes on the answer of _is_already_processed
LookupBranchAlwaysDuplicate(s, already) == [s EXCEPT !.pc = "duplicate", !.result = "duplicate"]
LookupBranchAlwaysEnqueue(s, already) == [s EXCEPT !.pc = "enqueue", !.result = "new"]
LookupBranch(s, already) ==
    IF already THEN [s EXCEPT !.pc = "duplicate", !.result = "duplicate"]
    ELSE [s EXCEPT !.pc = "enqueue", !.result = "new"]

\* _is_already_processed raised: nothing in submit_file catches it
LookupErrorEnqueues(s) == [s EXCEPT !.pc = "enqueue", !.result = "lookup_error"]
LookupError(s) == [s EXCEPT !.pc = "raised", !.result = "lookup_error"]

\* if self._is_already_processed(file_hash): the SELECT answers, or raises a
\* storage error that leaves submit_file as an exception.
Lookup(file_path) ==
    /\ sub[file_path].pc = "lookup"
    /\ \E db_ok \in BOOLEAN :
         sub' = [sub EXCEPT ![file_path] =
           IF ~db_ok
             THEN LookupError(@)
           ELSE LookupBranch([@ EXCEPT !.lookedUp = TRUE,
                                       !.seen = HasRecord(ledger, sub[file_path].file_hash),
                                       !.lookupTime = clock],
                             IsAlreadyProcessed(ledger, sub[file_path].file_hash))]
    /\ UNCHANGED <<max_retries, max_workers, files, ledger, clock, job, queue, restarts>>

\* where submit_file goes after the os.remove of a duplicate
AfterDuplicateRemoveEnqueueOnError(removed) == IF removed THEN "returned" ELSE "enqueue"
AfterDuplicateRemove(removed) == "returned"

\* the duplicate branch: os.remove(file_path) inside try/except, then return
RemoveDuplicate(file_path) ==
    /\ sub[file_path].pc = "duplicate"
    /\ \E removed \in BOOLEAN :
         /\ removed => files[file_path] # Absent
         /\ files' = IF removed THEN [files EXCEPT ![file_path] = Absent] ELSE files
         /\ sub' = [sub EXCEPT ![file_path] =
              [@ EXCEPT !.pc = AfterDuplicateRemove(removed),
                        !.removeResult = IF removed THEN "ok" ELSE "failed"]]
    /\ UNCHANGED <<max_retries, max_workers, ledger, clock, job, queue, restarts>>

\* executor.submit puts the work item on the pool's queue, which has no
\* bound: the put never waits for a worker or for room
QueueAdmitsWhenWorkerFree == Cardinality(Running) < max_workers
QueueAdmits == TRUE

\* self.executor.submit(self._process_with_retries, file_path, file_hash)
Enqueue(file_path) ==
    /\ sub[file_path].pc = "enqueue"
    /\ QueueAdmits
    /\ sub' = [sub EXCEPT ![file_path] = [@ EXCEPT !.pc = "returned"]]
    /\ job' = [job EXCEPT ![file_path] = [NoJob EXCEPT !.pc = "queued"]]
    /\ queue' = Append(queue, file_path)
    /\ UNCHANGED <<max_retries, max_workers, files, ledger, clock, restarts>>

(* ----------------------- _process_with_retries ------------------------- *)

\* processor.process_document(file_path): True, False or an exception.
\* DocumentProcessor answers True only after it has read and uploaded the file.
ProcessOutcomes(content) ==
    IF content = Absent THEN {"false", "raise"} ELSE {"true", "false", "raise"}

\* attempt in range(1, self.max_retries + 1)
InRangeOneMore(attempt) == 1 <= attempt /\ attempt <= max_retries + 1
InRange(attempt) == 1 <= attempt /\ attempt <= max_retries

\* the for statement takes its next value, or the loop is over and the
\* terminal failure is logged
LoopNext(j) ==
    IF InRange(j.attempt + 1)
      THEN [j EXCEPT !.pc = "call", !.attempt = @ + 1]
      ELSE [j EXCEPT !.pc = "done", !.outcome = "ExhaustedFailure"]

\* if attempt < self.max_retries
SleepsAfter(attempt) == attempt < max_retries

\* the end of a failed iteration: time.sleep(backoff) if another attempt
\* follows, otherwise straight on with the for statement
AfterFailedAttempt(j) ==
    IF SleepsAfter(j.attempt)
      THEN [j EXCEPT !.pc = "sleep", !.slept = Append(@, j.backoff)]
      ELSE LoopNext(j)

\* ThreadPoolExecutor(max_workers=max_workers): the pool has at most
\* max_workers threads, each running one job at a time
WorkerFreeAlways == TRUE
WorkerFreeNever == FALSE
WorkerFree == Cardinality(Running) < max_workers

\* a free worker takes the job at the head of the queue and enters the
\* function: backoff = 1, then the for statement
WorkerStart(file_path) ==
    /\ queue # <<>>
    /\ Head(queue) = file_path
    /\ WorkerFree
    /\ queue' = Tail(queue)
    /\ job' = [job EXCEPT ![file_path] = LoopNext([@ EXCEPT !.backoff = 1])]
    /\ UNCHANGED <<max_retries, max_workers, files, ledger, clock, sub, restarts>>

\* where the worker goes when process_document has answered
AfterCallRemovesFirst(j, result) ==
    IF result = "true" THEN [j EXCEPT !.pc = "remove"] ELSE AfterFailedAttempt(j)
AfterCallIgnoresResult(j, result) == [j EXCEPT !.pc = "mark"]
AfterCall(j, result) ==
    IF result = "true" THEN [j EXCEPT !.pc = "mark"] ELSE AfterFailedAttempt(j)

\* success = self.processor.process_document(file_path)
ProcessDocument(file_path) ==
    /\ job[file_path].pc = "call"
    /\ \E result \in ProcessOutcomes(files[file_path]) :
         job' = [job EXCEPT ![file_path] =
           AfterCall([@ EXCEPT !.log = Append(@, [attempt |-> job[file_path].attempt,
                                                   ok |-> (result = "true"),
                                                   content |-> files[file_path]])],
                     result)]
    /\ UNCHANGED <<max_retries, max_workers, files, ledger, clock, sub, queue, restarts>>

\* where the worker goes when _mark_processed raised: the call stands inside
\* the try of the loop body, so `except Exception` takes it as a failed attempt
AfterMarkErrorRemoves(j) == [j EXCEPT !.pc = "remove"]
AfterMarkError(j) == AfterFailedAttempt(j)

\* self._mark_processed(file_hash, os.path.basename(file_path)): the row is
\* committed, or the statement raises and nothing is written
MarkProcessed(file_path) ==
    /\ job[file_path].pc = "mark"
    /\ \E db_ok \in BOOLEAN :
         IF db_ok
           THEN /\ ledger' = InsertOrReplace(ledger, sub[file_path].file_hash,
                                             Basename(file_path), clock + 1)
                /\ clock' = clock + 1
                /\ job' = [job EXCEPT ![file_path] = [@ EXCEPT !.pc = "remove", !.markTime = clock + 1]]
           ELSE /\ job' = [job EXCEPT ![file_path] = AfterMarkError(@)]
                /\ UNCHANGED <<ledger, clock>>
    /\ UNCHANGED <<max_retries, max_workers, files, sub, queue, restarts>>

\* where the worker goes after the os.remove of the processed file
AfterRemoveRetriesOnError(j, removed) ==
    IF removed THEN [j EXCEPT !.pc = "done", !.outcome = "Success", !.removeResult = "ok"]
    ELSE AfterFailedAttempt([j EXCEPT !.removeResult = "failed"])
AfterRemove(j, removed) ==
    [j EXCEPT !.pc = "done", !.outcome = "Success",
              !.removeResult = IF removed THEN "ok" ELSE "failed"]

\* os.remove(file_path) inside its own try/except, then return
RemoveProcessed(file_path) ==
    /\ job[file_path].pc = "remove"
    /\ \E removed \in BOOLEAN :
         /\ removed => files[file_path] # Absent
         /\ files' = IF removed THEN [files EXCEPT ![file_path] = Absent] ELSE files
         /\ job' = [job EXCEPT ![file_path] = AfterRemove(@, removed)]
    /\ UNCHANGED <<max_retries, max_workers, ledger, clock, sub, queue, restarts>>

\* time.sleep(backoff) returns; backoff *= 2; the for statement goes on
WakeUp(file_path) ==
    /\ job[file_path].pc = "sleep"
    /\ job' = [job EXCEPT ![file_path] = LoopNext([@ EXCEPT !.backoff = @ * 2])]
    /\ UNCHANGED <<max_retries, max_workers, files, ledger, clock, sub, queue, restarts>>

(* ------------------------------ restart -------------------------------- *)

\* The process stops at any point and is started again: the queue, the
\* workers and a submit_file call in progress are gone, the upload directory
\* and the database file stay, and ProcessingManager.__init__ runs _init_db.
Restart ==
    /\ restarts < MaxRestarts
    /\ restarts' = restarts + 1
    /\ ledger' = InitDb(ledger)
    /\ queue' = <<>>
    /\ job' = [p \in Paths |->
         IF job[p].pc \in {"none", "done", "lost"} THEN job[p]
         ELSE [job[p] EXCEPT !.pc = "lost"]]
    /\ sub' = [p \in Paths |->
         IF sub[p].pc \in {"unused", "returned", "raised", "lost"} THEN sub[p]
         ELSE [sub[p] EXCEPT !.pc = "lost"]]
    /\ UNCHANGED <<max_retries, max_workers, files, clock>>

(* ------------------------------ re-upload ------------------------------ *)

\* The upload directory is written by the FTP clients, not by the core: a
\* client stores a file under a name that is there already, with other
\* bytes, after submit_file has fingerprinted the first upload and while
\* its job is waiting, running a pipeline call or sleeping.  The core takes
\* no lock on the file and keeps no copy of it.
Reupload(file_path) ==
    /\ files[file_path] # Absent
    /\ sub[file_path].file_hash = Sha256(files[file_path])
    /\ \/ sub[file_path].pc \in {"lookup", "enqueue"}
       \/ job[file_path].pc \in {"queued", "call", "sleep"}
    /\ \E content \in Contents \ {files[file_path]} :
         files' = [files EXCEPT ![file_path] = content]
    /\ UNCHANGED <<max_retries, max_workers, ledger, clock, sub, job, queue, restarts>>

(* ---------------------------- specification ---------------------------- *)

Next ==
    \/ \E file_path \in Paths : SubmitFile(file_path)
    \/ \E file_path \in Paths : Lookup(file_path)
    \/ \E file_path \in Paths : RemoveDuplicate(file_path)
    \/ \E file_path \in Paths : Enqueue(file_path)
    \/ \E file_path \in Paths : WorkerStart(file_path)
    \/ \E file_path \in Paths : ProcessDocument(file_path)
    \/ \E file_path \in Paths : MarkProcessed(file_path)
    \/ \E file_path \in Paths : RemoveProcessed(file_path)
    \/ \E file_path \in Paths : WakeUp(file_path)
    \/ Restart

Spec == Init /\ [][Next]_vars

\* One process lifetime (no restart).  Progress is a step of a thread inside
\* the core: the caller thread going on through a submit_file call it has
\* begun, a free pool thread taking the job at the head of the queue,
\* process_document returning or raising, a ledger write or an os.remove
\* answering, time.sleep returning.  The threads are scheduled: as long as
\* one of them can step, one of them does.  No upload is obliged to come.
Progress ==
    \/ \E file_path \in Paths : Lookup(file_path)
    \/ \E file_path \in Paths : RemoveDuplicate(file_path)
    \/ \E file_path \in Paths : Enqueue(file_path)
    \/ \E file_path \in Paths : WorkerStart(file_path)
    \/ \E file_path \in Paths : ProcessDocument(file_path)
    \/ \E file_path \in Paths : MarkProcessed(file_path)
    \/ \E file_path \in Paths : RemoveProcessed(file_path)
    \/ \E file_path \in Paths : WakeUp(file_path)

LifetimeNext ==
    \/ \E file_path \in Paths : SubmitFile(file_path)
    \/ Progress

FairSpec == Init /\ [][LifetimeNext]_vars /\ WF_vars(Progress)

\* The same program in an upload directory where clients may store a file
\* again under a name in use.
ReuploadNext ==
    \/ Next
    \/ \E file_path \in Paths : Reupload(file_path)

ReuploadSpec == Init /\ [][ReuploadNext]_vars

(* ======================== properties of the code ======================= *)

SubEnded(p) == sub[p].pc \in {"returned", "raised"}
JobEnded(p) == job[p].pc = "done"
Rows(file_hash) == {r \in ledger : r.file_hash = file_hash}
NoOkCall(p) == \A k \in 1..Len(job[p].log) : ~job[p].log[k].ok
FirstOk(p, k) ==
    /\ k \in 1..Len(job[p].log)
    /\ job[p].log[k].ok
    /\ \A m \in 1..(k - 1) : ~job[p].log[m].ok

\* the submissions of two files at different paths p (first) and q (second)
\* with the same bytes, where p's job wrote its ledger row before q's
\* lookup, and both have run to their end
TwoSameContent(p, q) ==
    /\ p # q
    /\ sub[p].file_hash # 0
    /\ sub[p].file_hash = sub[q].file_hash
    /\ job[p].markTime > 0
    /\ sub[q].lookedUp
    /\ job[p].markTime <= sub[q].lookupTime
    /\ JobEnded(p)
    /\ SubEnded(q)

\* C1 as stated: with two files of identical bytes at different paths, the
\* first job's ledger write before the second lookup, at the end there is
\* exactly one row for the fingerprint, the pipeline ran for the first file
\* only, and both files are gone from the upload directory.
C1_AsStated ==
    \A p, q \in Paths :
        TwoSameContent(p, q) =>
            /\ Cardinality(Rows(sub[p].file_hash)) = 1
            /\ job[p].log # <<>>
            /\ job[q] = NoJob
            /\ files[p] = Absent
            /\ files[q] = Absent

\* C1 amended: the same, except that each file is gone only if its os.remove
\* did not fail; the removal of each was attempted (the first on the success
\* path, the second on the duplicate path), and a failed one leaves the file.
C1_IdempotentIngestion ==
    \A p, q \in Paths :
        TwoSameContent(p, q) =>
            /\ Cardinality(Rows(sub[p].file_hash)) = 1
            /\ job[p].log # <<>>
            /\ job[q] = NoJob
            /\ sub[q].result = "duplicate"
            /\ job[p].outcome = "Success"
            /\ job[p].removeResult \in {"ok", "failed"}
            /\ sub[q].removeResult \in {"ok", "failed"}
            /\ (files[p] = Absent) <=> (job[p].removeResult = "ok")
            /\ (files[q] = Absent) <=> (sub[q].removeResult = "ok")

C1_Witness ==
    \E p, q \in Paths :
        /\ TwoSameContent(p, q)
        /\ job[p].removeResult = "ok"
        /\ sub[q].removeResult = "ok"
        /\ files[p] = Absent
        /\ files[q] = Absent

\* C2: a submission whose lookup found the fingerprint in the ledger never
\* has a job (none queued, none run, no pipeline call), and once it has
\* returned it has tried the os.remove of the file, whether or not the
\* removal worked.
C2_DuplicateNotScheduled ==
    \A p \in Paths :
        (sub[p].lookedUp /\ sub[p].seen) =>
            /\ job[p] = NoJob
            /\ \A k \in 1..Len(queue) : queue[k] # p
            /\ sub[p].pc \in {"duplicate", "returned", "lost"}
            /\ sub[p].pc = "returned" => sub[p].removeResult \in {"ok", "failed"}

C2_Witness ==
    \E p \in Paths :
        /\ sub[p].lookedUp
        /\ sub[p].seen
        /\ sub[p].pc = "returned"
        /\ sub[p].removeResult = "failed"
        /\ files[p] # Absent

\* C3: when max_retries >= 1, a job none of whose pipeline calls returned
\* true makes at most max_retries calls, the k-th call being attempt k, and
\* it ends after exactly max_retries calls, in ExhaustedFailure.
C3_BoundedRetries ==
    \A p \in Paths :
        (NoOkCall(p) /\ max_retries >= 1) =>
            /\ Len(job[p].log) <= max_retries
            /\ \A k \in 1..Len(job[p].log) : job[p].log[k].attempt = k
            /\ JobEnded(p) =>
                  /\ Len(job[p].log) = max_retries
                  /\ job[p].outcome = "ExhaustedFailure"

C3_Witness ==
    \E p \in Paths :
        /\ JobEnded(p)
        /\ NoOkCall(p)
        /\ max_retries = 2
        /\ Len(job[p].log) = 2
        /\ job[p].outcome = "ExhaustedFailure"

\* C4 as stated: a job whose pipeline calls failed on attempts 1..k-1 and
\* returned true on attempt k ends in Success after exactly k calls, with
\* exactly one row for its fingerprint and its source file gone.
C4_AsStated ==
    \A p \in Paths : \A k \in 1..Len(job[p].log) :
        (JobEnded(p) /\ FirstOk(p, k)) =>
            /\ job[p].outcome = "Success"
            /\ Len(job[p].log) = k
            /\ Cardinality(Rows(sub[p].file_hash)) = 1
            /\ files[p] = Absent

\* C5 as stated: once a pipeline call of a job has returned true, that call
\* is the job's last, and the job is on its way to, or in, Success (writing
\* the row, removing the file, or done), whatever the ledger write and the
\* removal do.
C5_AsStated ==
    \A p \in Paths : \A k \in 1..Len(job[p].log) :
        job[p].log[k].ok =>
            /\ Len(job[p].log) = k
            /\ job[p].pc \in {"mark", "remove", "done", "lost"}
            /\ job[p].pc = "done" => job[p].outcome = "Success"

\* C6: a job none of whose calls returned true, and a job that ended in
\* ExhaustedFailure, has written no ledger row and tried no os.remove; and
\* the step that records a failed call, and the step that ends a job in
\* ExhaustedFailure, leave the ledger and the upload directory as they were.
C6_FailureState ==
    \A p \in Paths :
        (job[p].outcome = "ExhaustedFailure" \/ (job[p].pc # "none" /\ NoOkCall(p))) =>
            /\ job[p].markTime = 0
            /\ job[p].removeResult = "none"
            /\ job[p].pc \notin {"mark", "remove"}
            /\ job[p].outcome # "Success"

C6_FailureStep ==
    \A p \in Paths :
        \/ /\ job[p].outcome # "ExhaustedFailure"
           /\ job'[p].outcome = "ExhaustedFailure"
        \/ /\ Len(job'[p].log) = Len(job[p].log) + 1
           /\ ~job'[p].log[Len(job'[p].log)].ok
        => (ledger' = ledger /\ files' = files)

C6_ExhaustedLeavesLedgerAndFile == [](C6_FailureState) /\ [][C6_FailureStep]_vars

C6_Witness ==
    \E p \in Paths :
        /\ job[p].outcome = "ExhaustedFailure"
        /\ Len(job[p].log) >= 2
        /\ NoOkCall(p)
        /\ ledger = {}
        /\ files[p] # Absent
        /\ Sha256(files[p]) = sub[p].file_hash


\* C7: when the os.remove after a successful pipeline call failed, the job
\* is done in Success with that call its last, the row for its fingerprint
\* is in the ledger, and every submission of the same bytes whose lookup
\* came after the row was written was taken as a duplicate and has no job.
C7_CleanupFailureIsolation ==
    \A p \in Paths :
        job[p].removeResult = "failed" =>
            /\ job[p].pc = "done"
            /\ job[p].outcome = "Success"
            /\ job[p].log[Len(job[p].log)].ok
            /\ Rows(sub[p].file_hash) # {}
            /\ \A q \in Paths :
                 (/\ q # p
                  /\ sub[q].file_hash = sub[p].file_hash
                  /\ sub[q].lookedUp
                  /\ sub[q].lookupTime >= job[p].markTime) =>
                     /\ sub[q].result = "duplicate"
                     /\ job[q] = NoJob

C7_Witness ==
    \E p, q \in Paths :
        /\ job[p].removeResult = "failed"
        /\ files[p] # Absent
        /\ q # p
        /\ sub[q].file_hash = sub[p].file_hash
        /\ sub[q].lookupTime >= job[p].markTime
        /\ sub[q].pc = "returned"
        /\ sub[q].result = "duplicate"

\* C8: no step, a restart included, takes a fingerprint out of the ledger;
\* and a submission made after a restart, of bytes whose row a job of an
\* earlier process lifetime wrote, is taken as a duplicate when its lookup
\* answers, tries the os.remove before it returns, and has no job.
C8_RowsStay == \A r \in ledger : \E r2 \in ledger' : r2.file_hash = r.file_hash

C8_AfterRestart ==
    \A p, q \in Paths :
        (/\ job[p].markTime > 0
         /\ sub[q].epoch > sub[p].epoch
         /\ sub[q].file_hash = sub[p].file_hash
         /\ sub[q].lookedUp) =>
            /\ sub[q].result = "duplicate"
            /\ job[q] = NoJob
            /\ sub[q].pc = "returned" => sub[q].removeResult \in {"ok", "failed"}
            /\ sub[q].removeResult = "ok" => files[q] = Absent

PdfNames == {PathA, PathB}

\* C9: a submit_file call for a path that does not end in .pdf (in any
\* case) or that names no file returns in that step, with no fingerprint, no
\* ledger lookup and no job, and the step leaves the ledger, the upload
\* directory, the queue and the jobs as they were; the call never gets a
\* lookup, a removal or a job later.
C9_RejectStep ==
    \A p \in Paths :
        (/\ sub[p].pc = "unused"
         /\ sub'[p].pc # "unused"
         /\ (p \notin PdfNames \/ files[p] = Absent)) =>
            /\ sub'[p].pc = "returned"
            /\ sub'[p].result \in {"not_pdf", "missing"}
            /\ ledger' = ledger
            /\ files' = files
            /\ queue' = queue
            /\ job' = job

C9_Rejected ==
    \A p \in Paths :
        (sub[p].pc # "unused" /\ (p \notin PdfNames \/ sub[p].result = "missing")) =>
            /\ sub[p].pc = "returned"
            /\ sub[p].file_hash = 0
            /\ ~sub[p].lookedUp
            /\ sub[p].removeResult = "none"
            /\ job[p] = NoJob

C9_InvalidInputRejected == [](C9_Rejected) /\ [][C9_RejectStep]_vars

C9_Witness ==
    \E p, q \in Paths :
        /\ p \notin PdfNames
        /\ files[p] # Absent
        /\ sub[p].result = "not_pdf"
        /\ q \in PdfNames
        /\ files[q] = Absent
        /\ sub[q].result = "missing"

\* C10: a submit_file call whose fingerprinting or ledger lookup raised has
\* ended there: it has no job, it tried no os.remove, and the step in which
\* the error came left the ledger, the upload directory, the queue and the
\* jobs as they were; a lookup that raised is not taken as "not a duplicate".
C10_Aborted ==
    \A p \in Paths :
        sub[p].result \in {"fingerprint_error", "lookup_error"} =>
            /\ sub[p].pc = "raised"
            /\ job[p] = NoJob
            /\ sub[p].removeResult = "none"
            /\ \A k \in 1..Len(queue) : queue[k] # p

C10_AbortStep ==
    \A p \in Paths :
        (/\ sub[p].result = "none"
         /\ sub'[p].result \in {"fingerprint_error", "lookup_error"}) =>
            /\ ledger' = ledger
            /\ files' = files
            /\ queue' = queue
            /\ job' = job

C10_ConservativeAbort == [](C10_Aborted) /\ [][C10_AbortStep]_vars

C10_Witness ==
    \E p, q \in Paths :
        /\ sub[p].result = "fingerprint_error"
        /\ files[p] # Absent
        /\ sub[q].result = "lookup_error"
        /\ files[q] # Absent
        /\ Rows(sub[q].file_hash) = {}


\* C11 as stated: no submit_file call ends with an exception to its caller;
\* whatever failed inside (a missing file, the fingerprinting, the ledger
\* lookup, a job of the pool), every call that has ended has returned
\* normally.
C11_AsStated ==
    \A p \in Paths :
        /\ sub[p].pc # "raised"
        /\ sub[p].result \in {"fingerprint_error", "lookup_error"} => sub[p].pc = "returned"


\* C12: in every reachable state the ledger holds at most one row for each
\* fingerprint; every ledger write that went through has its fingerprint in
\* the ledger, and the row there is the one the latest such write made (its
\* filename and its time), so a write for a fingerprint that already had a
\* row took that row's place.
C12_OneRecordPerFingerprint ==
    /\ \A r1, r2 \in ledger : r1.file_hash = r2.file_hash => r1 = r2
    /\ \A p \in Paths :
         job[p].markTime > 0 =>
            \E r \in ledger :
                /\ r.file_hash = sub[p].file_hash
                /\ r.processed_at >= job[p].markTime
    /\ \A r \in ledger :
         \E p \in Paths :
            /\ job[p].markTime = r.processed_at
            /\ sub[p].file_hash = r.file_hash
            /\ r.filename = Basename(p)

C12_Witness ==
    \E p, q \in Paths :
        /\ p # q
        /\ sub[p].file_hash = sub[q].file_hash
        /\ job[p].markTime > 0
        /\ job[q].markTime > job[p].markTime
        /\ Cardinality(ledger) = 1
        /\ \E r \in ledger : r.processed_at = job[q].markTime /\ r.filename = Basename(q)


\* C13: in every reachable state at most max_workers jobs are being
\* executed (in a pipeline call, a backoff sleep, a ledger write or a
\* removal), a job that is scheduled and not yet started is in the pool's
\* queue, and a job leaves the queue only in a step before which fewer
\* than max_workers jobs were being executed.
C13_Bounded ==
    /\ Cardinality(Running) <= max_workers
    /\ \A p \in Paths :
         job[p].pc = "queued" <=> (\E k \in 1..Len(queue) : queue[k] = p)

C13_StartStep ==
    \A p \in Paths :
        (job[p].pc = "queued" /\ job'[p].pc \notin {"queued", "lost"}) =>
            Cardinality(Running) < max_workers

C13_WorkerBound == [](C13_Bounded) /\ [][C13_StartStep]_vars

C13_Witness ==
    \E p, q \in Paths :
        /\ max_workers = 1
        /\ job[p].pc = "sleep"
        /\ job[q].pc = "queued"
        /\ queue = <<q>>


\* the lookup of p's submission came before the ledger write of q's job
LookupBeforeWrite(p, q) ==
    job[q].markTime = 0 \/ sub[p].lookupTime < job[q].markTime

\* two submit_file calls for files of the same bytes whose ledger lookups
\* both answered before either job's ledger write
Race(p, q) ==
    /\ p # q
    /\ sub[p].file_hash # 0
    /\ sub[p].file_hash = sub[q].file_hash
    /\ sub[p].lookedUp
    /\ sub[q].lookedUp
    /\ \A a, b \in {p, q} : LookupBeforeWrite(a, b)

HasOkCall(p) == \E k \in 1..Len(job[p].log) : job[p].log[k].ok

\* no _mark_processed call of p's job has raised: no pipeline call came
\* after one that returned true, and a finished job whose pipeline returned
\* true has written its row
NoWriteFailed(p) ==
    /\ \A k \in 1..Len(job[p].log) : job[p].log[k].ok => k = Len(job[p].log)
    /\ (JobEnded(p) /\ HasOkCall(p)) => job[p].markTime > 0

\* C14 as stated: in the race both submissions are taken as new and get a
\* job, and when the pipeline has returned true in both jobs and both have
\* ended, the ledger holds exactly one row for the fingerprint and no ledger
\* write of either job has failed.
C14_AsStated ==
    \A p, q \in Paths :
        Race(p, q) =>
            /\ sub[p].result = "new"
            /\ sub[p].pc = "returned" => job[p].pc # "none"
            /\ (HasOkCall(p) /\ HasOkCall(q) /\ JobEnded(p) /\ JobEnded(q)) =>
                  /\ Cardinality(Rows(sub[p].file_hash)) = 1
                  /\ NoWriteFailed(p)

\* C14 amended: in the race both submissions are taken as new and get a
\* job; the ledger never holds more than one row for the fingerprint; when
\* both jobs have written, the one row is that of the later write; and a
\* job whose ledger writes all raised a storage error has left no row.
C14_DuplicateDetectionRace ==
    \A p, q \in Paths :
        Race(p, q) =>
            /\ sub[p].result = "new"
            /\ sub[p].pc = "returned" => job[p].pc # "none"
            /\ Cardinality(Rows(sub[p].file_hash)) <= 1
            /\ (job[p].markTime > 0 \/ job[q].markTime > 0) <=>
                   Cardinality(Rows(sub[p].file_hash)) = 1
            /\ (job[p].markTime > 0 /\ job[q].markTime > job[p].markTime) =>
                   \A r \in Rows(sub[p].file_hash) :
                       r.processed_at = job[q].markTime /\ r.filename = Basename(q)

C14_Witness ==
    \E p, q \in Paths :
        /\ Race(p, q)
        /\ job[p].outcome = "Success"
        /\ job[q].outcome = "Success"
        /\ job[p].log[1].ok
        /\ job[q].log[1].ok
        /\ job[p].log[1].content = job[q].log[1].content
        /\ Cardinality(Rows(sub[p].file_hash)) = 1


\* C15: in every reachable state, a job that is about to remove its file,
\* or has tried to, has written its row before, and every file the core has
\* removed (after a successful pipeline call, or as a duplicate) has the
\* fingerprint taken at its submission in the ledger.
C15_RecordBeforeDelete ==
    \A p \in Paths :
        /\ (job[p].pc = "remove" \/ job[p].removeResult # "none") =>
              /\ job[p].markTime > 0
              /\ Rows(sub[p].file_hash) # {}
        /\ (sub[p].pc = "duplicate" \/ sub[p].removeResult # "none") =>
              Rows(sub[p].file_hash) # {}
        /\ (files[p] = Absent /\ sub[p].file_hash # 0) =>
              /\ Rows(sub[p].file_hash) # {}
              /\ job[p].removeResult = "ok" \/ sub[p].removeResult = "ok"

C15_Witness ==
    \E p, q \in Paths :
        /\ job[p].removeResult = "ok"
        /\ Len(job[p].log) = 2
        /\ files[p] = Absent
        /\ sub[q].removeResult = "ok"
        /\ files[q] = Absent
        /\ restarts = 1
        /\ Rows(sub[q].file_hash) # {}


\* the process stopped while p's job had a pipeline call that returned
\* true behind it and no committed ledger write
CrashedBeforeWrite(p) ==
    /\ job[p].pc = "lost"
    /\ job[p].log # <<>>
    /\ job[p].log[Len(job[p].log)].ok
    /\ job[p].markTime = 0

\* C16 as stated: after such a crash, and as long as no job of a later
\* process lifetime has written a row, the file is still in the upload
\* directory and the ledger has no row for its fingerprint.
C16_AsStated ==
    \A p \in Paths :
        (/\ CrashedBeforeWrite(p)
         /\ \A q \in Paths : sub[q].epoch > sub[p].epoch => job[q].markTime = 0) =>
            /\ files[p] # Absent
            /\ Rows(sub[p].file_hash) = {}

\* C16 amended: after such a crash the file is still in the upload
\* directory and no removal of it was tried; the ledger has no row for
\* its fingerprint unless the job of another file with the same bytes
\* wrote one; a submission of the same
\* bytes in a later process lifetime whose lookup answers before any such
\* write is taken as new and gets a job; and after a restart, as before it,
\* no fingerprinted file is gone without a row for its fingerprint.
C16_CrashWindow ==
    /\ \A p \in Paths :
         CrashedBeforeWrite(p) =>
            /\ files[p] # Absent
            /\ job[p].removeResult = "none"
            /\ (\A r \in Paths : sub[r].file_hash = sub[p].file_hash => job[r].markTime = 0)
                  => Rows(sub[p].file_hash) = {}
            /\ \A q \in Paths :
                 (/\ sub[q].epoch > sub[p].epoch
                  /\ sub[q].file_hash = sub[p].file_hash
                  /\ sub[q].lookedUp
                  /\ \A r \in Paths :
                        sub[r].file_hash = sub[p].file_hash => LookupBeforeWrite(q, r)) =>
                     /\ sub[q].result = "new"
                     /\ sub[q].pc = "returned" => job[q].pc # "none"
    /\ \A p \in Paths :
         (restarts >= 1 /\ files[p] = Absent /\ sub[p].file_hash # 0) =>
            Rows(sub[p].file_hash) # {}

C16_Witness ==
    \E p, q \in Paths :
        /\ CrashedBeforeWrite(p)
        /\ files[p] # Absent
        /\ sub[q].epoch > sub[p].epoch
        /\ sub[q].file_hash = sub[p].file_hash
        /\ sub[q].result = "new"
        /\ job[q].log # <<>>
        /\ job[q].log[1].ok
        /\ job[q].outcome = "Success"


\* the submission of p has come to its end: the call has returned or
\* raised, and the job it scheduled, if any, is done; the file is then
\* deleted or left in place for good
FileTerminal(p) == SubEnded(p) /\ job[p].pc \in {"none", "done"}

C17_OneOutcome ==
    \A p \in Paths :
        /\ job[p].pc = "done" <=> job[p].outcome \in {"Success", "ExhaustedFailure"}
        /\ job[p].pc # "done" <=> job[p].outcome = "none"

C17_OutcomeStays ==
    \A p \in Paths : job[p].outcome # "none" => job'[p] = job[p]

\* C17: within one process lifetime, when every thread that can step does
\* so in the end, every job handed to the pool is done in the end, with
\* exactly one outcome, Success or ExhaustedFailure, that never changes
\* afterwards, and every submit_file call that was begun comes to its end
\* with its job done; so no job retries for ever and no queued job waits
\* for ever.
C17_Termination ==
    /\ [](C17_OneOutcome)
    /\ [][C17_OutcomeStays]_vars
    /\ <>[](\A p \in Paths : sub[p].pc = "unused" \/ FileTerminal(p))

C17_Witness ==
    \E p, q \in Paths :
        /\ max_workers = 1
        /\ max_retries = 2
        /\ job[p].outcome = "ExhaustedFailure"
        /\ Len(job[p].log) = 2
        /\ job[q].outcome = "Success"
        /\ FileTerminal(p)
        /\ FileTerminal(q)


RECURSIVE Pow2(_)
Pow2(n) == IF n <= 0 THEN 1 ELSE 2 * Pow2(n - 1)

\* the pipeline calls of p's job that failed and were not the last allowed
FailedBeforeLast(p) ==
    {k \in 1..Len(job[p].log) : ~job[p].log[k].ok /\ job[p].log[k].attempt < max_retries}

\* C18 as stated: the k-th sleep of a job lasts 2^(k-1); the job has slept
\* once for each failed pipeline call that was not the last allowed one, and
\* never after a call that returned true (successful attempt); a job that
\* ended in ExhaustedFailure with max_retries = N >= 1 has slept N - 1 times.
C18_AsStated ==
    \A p \in Paths :
        /\ \A k \in 1..Len(job[p].slept) : job[p].slept[k] = Pow2(k - 1)
        /\ Len(job[p].slept) = Cardinality(FailedBeforeLast(p))
        /\ job[p].pc = "sleep" => ~job[p].log[Len(job[p].log)].ok
        /\ (job[p].outcome = "ExhaustedFailure" /\ max_retries >= 1) =>
              Len(job[p].slept) = max_retries - 1


\* C19 as stated: the pipeline calls of a job are numbered 1, 2, ... in the
\* order they were made; a job is at one place at a time; and a job that
\* is about to make call k+1 has made exactly k calls, all of which failed,
\* and has slept after each of them.
C19_AsStated ==
    \A p \in Paths :
        /\ \A k \in 1..Len(job[p].log) : job[p].log[k].attempt = k
        /\ job[p].pc = "call" =>
              /\ job[p].attempt = Len(job[p].log) + 1
              /\ Len(job[p].slept) = Len(job[p].log)
              /\ \A k \in 1..Len(job[p].log) : ~job[p].log[k].ok


\* C20: a submit_file call that has reached executor.submit can always take
\* that step, however many workers are occupied and however many jobs are
\* queued; while the caller thread is inside submit_file the file has no
\* job, so no pipeline call and no sleep is made there; and as soon as the
\* job is in the queue the call has returned, before any pipeline call.
C20_NonBlockingSubmission ==
    \A p \in Paths :
        /\ sub[p].pc = "enqueue" => ENABLED Enqueue(p)
        /\ sub[p].pc \in {"lookup", "duplicate", "enqueue"} => job[p] = NoJob
        /\ job[p].pc # "none" => (sub[p].pc = "returned" /\ sub[p].result = "new")
        /\ job[p].pc = "queued" => (job[p].log = <<>> /\ job[p].slept = <<>>)

C20_Witness ==
    \E p, q \in Paths :
        /\ p # q
        /\ Cardinality(Running) = max_workers
        /\ job[p].pc = "call"
        /\ Len(job[p].log) = 1
        /\ job[q].pc = "queued"
        /\ sub[q].pc = "returned"
        /\ job[q].log = <<>>


\* C22 as stated: a job that has ended in the terminal failure has made at
\* least one pipeline call, whatever value max_retries has.
C22_AsStated ==
    \A p \in Paths :
        job[p].outcome = "ExhaustedFailure" => Len(job[p].log) >= 1


\* C21 as stated: a job that has written its ledger row wrote the
\* fingerprint of the bytes its last pipeline call, the one that returned
\* true, was given; so the row for a file the job went on to delete is the
\* row of the bytes that were processed.
C21_AsStated ==
    \A p \in Paths :
        job[p].markTime > 0 =>
            sub[p].file_hash = Sha256(job[p].log[Len(job[p].log)].content)

====
